---- MODULE Spec2Model ----
(***************************************************************************)
(* Model of the aggregation driver of arewefluentyet.com:                  *)
(*   src/src/arewefluentyet/aggregate.py  (the revision walker, main)      *)
(*   src/src/arewefluentyet/milestone.py  (the Milestone progress log)     *)
(*                                                                         *)
(* A calendar date (datetime.date) is the triple <<year, month, day>>.     *)
(* A date string (str(date), the "date" key of progress.json and           *)
(* snapshot.json) is the sequence of its characters, "YYYY-MM-DD".         *)
(* A value that may be None is a sequence: <<>> is None.  A revision id is *)
(* a positive number, 0 is None.                                           *)
(***************************************************************************)
EXTENDS Integers, Sequences, FiniteSets, TLC

(***************************************************************************)
(* Bounds of the model.                                                    *)
(***************************************************************************)
\* number of revisions of the history
MaxRevs == 2
\* the revisions are committed within MaxSpan days of the first one
MaxSpan == 8
\* a milestone's start date is within MaxStart days of the first revision
MaxStart == 1
\* number of milestones given to main (0 .. MaxMilestones)
MaxMilestones == 2
\* get_data returns progress numbers 1 .. MaxProgress
MaxProgress == 1
\* number of runs of main that are followed
MaxRuns == 2

\* PARAMS["frequency"] = timedelta(days=7)
Frequency == 7

\* the commit date of the first revision of the history
BaseDate == <<2024, 1, 25>>

None == <<>>

(***************************************************************************)
(* datetime.date: calendar arithmetic, comparison, str() and parse_date.  *)
(***************************************************************************)
IsLeap(y) == (y % 4 = 0 /\ y % 100 # 0) \/ y % 400 = 0

DaysInMonth(y, m) ==
  IF m = 2 THEN (IF IsLeap(y) THEN 29 ELSE 28)
  ELSE IF m \in {4, 6, 9, 11} THEN 30 ELSE 31

\* the day after d
next_day(d) ==
  IF d[3] < DaysInMonth(d[1], d[2]) THEN <<d[1], d[2], d[3] + 1>>
  ELSE IF d[2] < 12 THEN <<d[1], d[2] + 1, 1>>
  ELSE <<d[1] + 1, 1, 1>>

RECURSIVE date_add(_, _)
\* date + timedelta(days=n), n >= 0
date_add(d, n) ==
  IF n = 0 THEN d
  ELSE CHOOSE r \in {date_add(t, n - 1) : t \in {next_day(d)}} : TRUE

\* date < date and date <= date compare year, month, day in this order
date_lt(a, b) ==
  \/ a[1] < b[1]
  \/ a[1] = b[1] /\ a[2] < b[2]
  \/ a[1] = b[1] /\ a[2] = b[2] /\ a[3] < b[3]

date_le(a, b) == a = b \/ date_lt(a, b)

DigitChars == <<"0", "1", "2", "3", "4", "5", "6", "7", "8", "9">>

RECURSIVE zero_pad(_, _)
\* "%0<w>d" % n, as a sequence of characters
zero_pad(n, w) ==
  IF w <= 1 /\ n < 10 THEN <<DigitChars[n + 1]>>
  ELSE CHOOSE r \in {Append(zero_pad(q, v), DigitChars[(n % 10) + 1]) :
                       q \in {n \div 10}, v \in {w - 1}} : TRUE

\* str(date): "%04d-%02d-%02d"
date_str(d) ==
  zero_pad(d[1], 4) \o <<"-">> \o zero_pad(d[2], 2) \o <<"-">> \o zero_pad(d[3], 2)

DigitValue(c) == CHOOSE n \in 0..9 : DigitChars[n + 1] = c

RECURSIVE split_ints(_, _, _)
\* [int(s) for s in input.split("-")]: cur is the number read so far
split_ints(s, k, cur) ==
  IF k > Len(s) THEN <<cur>>
  ELSE IF s[k] = "-"
  THEN CHOOSE r \in {<<cur>> \o split_ints(s, j, 0) : j \in {k + 1}} : TRUE
  ELSE CHOOSE r \in {split_ints(s, j, c) :
                       j \in {k + 1}, c \in {cur * 10 + DigitValue(s[k])}} : TRUE

\* parse_date(input) = date(*(int(s) for s in input.split("-")))
parse_date(input) == CHOOSE r \in {split_ints(s, 1, 0) : s \in {input}} : TRUE

(***************************************************************************)
(* Milestone (milestone.py).  progress_data is the in-memory attribute:    *)
(* None until the first access, then the list loaded from progress.json.  *)
(* A file is [exists, content].                                            *)
(***************************************************************************)
NoFile == [exists |-> FALSE, content |-> <<>>]

File(c) == [exists |-> TRUE, content |-> c]

NotLoaded == [loaded |-> FALSE, log |-> <<>>]

\* Milestone.get_progress_data: the list after the lazy load
get_progress_data(pd, progress_json) ==
  IF ~pd.loaded
  THEN (IF progress_json.exists THEN progress_json.content ELSE <<>>)
  ELSE pd.log

\* append_progress_entry without the equal-date case
append_progress_entry_always(progress_data, progress_entry) ==
  Append(progress_data, progress_entry)

\* Milestone.append_progress_entry on the loaded list
append_progress_entry(progress_data, progress_entry) ==
  IF Len(progress_data) > 0
     /\ progress_data[Len(progress_data)].date = progress_entry.date
  THEN [progress_data EXCEPT ![Len(progress_data)] = progress_entry]
  ELSE Append(progress_data, progress_entry)

\* get_next_date reading the first entry of the list
Milestone_get_next_date_first(progress_data, start_date, frequency) ==
  IF Len(progress_data) > 0
  THEN date_add(parse_date(progress_data[1].date), frequency)
  ELSE start_date

\* Milestone.get_next_date(frequency)
Milestone_get_next_date(progress_data, start_date, frequency) ==
  IF Len(progress_data) > 0
  THEN date_add(parse_date(progress_data[Len(progress_data)].date), frequency)
  ELSE start_date

\* get_last_date reading the first entry of the list
get_last_date_first(progress_data) ==
  IF Len(progress_data) > 0
  THEN parse_date(progress_data[1].date)
  ELSE None

\* Milestone.get_last_date: a date or None
get_last_date(progress_data) ==
  IF Len(progress_data) > 0
  THEN parse_date(progress_data[Len(progress_data)].date)
  ELSE None

\* collect_data with a snapshot that does not carry the revision
collect_data_unstamped(result, date, revision) ==
  IF result = None THEN None
  ELSE LET snapshot == [date |-> date_str(date), revision |-> 0,
                        data |-> result[1]]
           progress_entry == [data |-> result[2], date |-> snapshot.date,
                              revision |-> revision]
       IN <<progress_entry, snapshot>>

\* Milestone.collect_data: result is get_data's (entries, progress) or None
collect_data(result, date, revision) ==
  IF result = None THEN None
  ELSE LET snapshot == [date |-> date_str(date), revision |-> revision,
                        data |-> result[1]]
           progress_entry == [data |-> result[2], date |-> snapshot.date,
                              revision |-> snapshot.revision]
       IN <<progress_entry, snapshot>>

(***************************************************************************)
(* Source: the history and its working copy.  source.py is not part of    *)
(* the sources at hand; these follow the capability set of the design     *)
(* document.  Revision r of the history was committed on history[r], and  *)
(* the history is in commit order.                                         *)
(***************************************************************************)
Revisions(h) == 1..Len(h)

\* Source.get_current_revision
get_current_revision(checked_out) == checked_out

\* Source.get_revision_date(revision, use_current_revision)
get_revision_date(h, checked_out, rev, use_current) ==
  IF use_current THEN h[checked_out] ELSE h[rev]

\* Source.pick_next_revision(next_date): the revision active at or before
\* next_date, the latest revision of the history when there is no date
pick_next_revision(h, date) ==
  IF date = None THEN Len(h)
  ELSE CHOOSE r \in Revisions(h) :
         /\ date_le(h[r], date)
         /\ \A q \in Revisions(h) : date_le(h[q], date) => q <= r

(***************************************************************************)
(* aggregate.py                                                            *)
(***************************************************************************)
RECURSIVE get_next_date_from(_, _, _)
\* the loop of get_next_date over the candidates, from milestone k on
get_next_date_from(candidates, k, date) ==
  IF k > Len(candidates) THEN date
  ELSE get_next_date_from(candidates, k + 1,
         IF date = None \/ date_lt(candidates[k], date)
         THEN candidates[k] ELSE date)

\* get_next_date keeping the later candidate
get_next_date_latest(logs, starts) ==
  LET candidates ==
        [k \in 1..Len(logs) |-> Milestone_get_next_date(logs[k], starts[k], Frequency)]
  IN IF Len(logs) = 0 THEN None
     ELSE CHOOSE d \in {candidates[k] : k \in 1..Len(logs)} :
            \A k \in 1..Len(logs) : date_le(candidates[k], d)

\* get_next_date(milestones); logs are the milestones' loaded lists
get_next_date(logs, starts) ==
  get_next_date_from(
    [k \in 1..Len(logs) |-> Milestone_get_next_date(logs[k], starts[k], Frequency)],
    1, None)

\* is_switch_to_revision_required asking for all milestones to lack the log
is_switch_to_revision_required_all(has_log) ==
  \A k \in 1..Len(has_log) : ~has_log[k]

\* is_switch_to_revision_required; has_log[k] is what milestone k's
\* has_log_for_date answers
is_switch_to_revision_required(has_log) ==
  \E k \in 1..Len(has_log) : ~has_log[k]

\* the skip with < for <=
already_collected_strict(use_current, milestone_last_date, rev_date) ==
  /\ ~use_current
  /\ milestone_last_date # None
  /\ date_lt(rev_date, milestone_last_date)

\* the skip applied in current-revision mode too
already_collected_any_mode(use_current, milestone_last_date, rev_date) ==
  /\ milestone_last_date # None
  /\ date_le(rev_date, milestone_last_date)

\* main, line 97, with the date left where it is
advance_next_date_none(date) == date

\* main, line 97: next_date += timedelta(days=PARAMS["frequency"])
advance_next_date(date) == date_add(date, Frequency)

\* main, lines 76-77, leaving the loop as soon as one revision was selected
same_revision_once(next_rev, current_rev) == current_rev # 0

\* main, lines 76-77: the while loop ends
same_revision(next_rev, current_rev) == next_rev = current_rev

\* update_milestones_for_revision, lines 38-42: the milestone is skipped
already_collected(use_current, milestone_last_date, rev_date) ==
  /\ ~use_current
  /\ milestone_last_date # None
  /\ date_le(rev_date, milestone_last_date)

\* break for continue
after_no_data_break(k, n) == n + 1

\* update_milestones_for_revision, lines 44-46: continue, with the next milestone
after_no_data(k, n) == k + 1

\* the files written whatever the dry-run flag
saved_always(dry, dir, log, snapshot) ==
  [progress |-> File(log), snapshot |-> <<snapshot>>]

\* update_milestones_for_revision, lines 51-56: the milestone's directory after
\* save_progress and save_snapshot, or untouched in a dry run
saved(dry, dir, log, snapshot) ==
  IF dry THEN dir
  ELSE [progress |-> File(log), snapshot |-> <<snapshot>>]

\* what a data directory holds for one milestone; snapshot is None while
\* there is no snapshot.json, else <<the snapshot>>
EmptyDir == [progress |-> NoFile, snapshot |-> None]

\* get_data's (entries, progress)
Results == {None} \cup ({1} \X (1..MaxProgress))

VARIABLES
  history,              \* the commit date of every revision
  working_copy,         \* the revision that is checked out
  start_dates,          \* the milestones' start_date
  files,                \* per milestone: progress.json and snapshot.json
  progress_data,        \* per milestone: the progress_data attribute
  dry_run,              \* PARAMS["dry_run"]
  use_current_revision, \* main's argument
  pc,                   \* where main is: idle, loop, prompt, update, exit, report
  start_revision, any_update_happened, next_date, current_revision,
  next_revision,        \* main's locals
  revision, index,      \* update_milestones_for_revision: its argument, its loop
  switches,             \* number of switch_to_revision calls of this run
  calls,                \* per milestone: number of collect_data calls of this run
  last_call,            \* the last collect_data call: <<milestone, date, revision>>
  writes,               \* number of files written in this run
  written,              \* the files the last step wrote, in order
  notice,               \* what the last step of the milestone loop printed
  flags,                \* of this run: a prompt declined, a collection without data
  outcome,              \* the last line main printed
  previous,             \* how the previous run went
  runs,                 \* number of finished runs
  asked,                \* <<what has_log_for_date answered for the selected revision>>
  crash                 \* the run before was killed: <<date, revision, next milestone>>

vars == <<history, working_copy, start_dates, files, progress_data, dry_run,
          use_current_revision, pc, start_revision, any_update_happened,
          next_date, current_revision, next_revision, revision, index,
          switches, calls, last_call, writes, written, notice, flags, outcome,
          previous, runs, asked, crash>>

NumMilestones == Len(start_dates)

Milestones == 1..NumMilestones

NoFlags == [declined |-> FALSE, no_data |-> FALSE, prompted |-> FALSE]

\* previous.walk: the previous run was a cadence walk; previous.exhausted: it
\* also wrote its results (no dry run), no prompt was declined in it, every
\* collection gave data, and the last revision it selected is the latest one
NoPrevious == [walk |-> FALSE, exhausted |-> FALSE]

\* the histories: MaxRevs revisions in commit order, the first on BaseDate
Histories ==
  {[r \in 1..MaxRevs |-> date_add(BaseDate, o[r])] :
     o \in {f \in [1..MaxRevs -> 0..MaxSpan] :
              /\ f[1] = 0
              /\ \A r \in 1..(MaxRevs - 1) : f[r] <= f[r + 1]}}

StartDates ==
  UNION {[1..n -> {date_add(BaseDate, o) : o \in 0..MaxStart}] : n \in 0..MaxMilestones}

Init ==
  /\ history \in Histories
  /\ working_copy = MaxRevs
  /\ start_dates \in StartDates
  /\ files = [k \in 1..Len(start_dates) |-> EmptyDir]
  /\ progress_data = [k \in 1..Len(start_dates) |-> NotLoaded]
  /\ dry_run = FALSE
  /\ use_current_revision = FALSE
  /\ pc = "idle"
  /\ start_revision = 0
  /\ any_update_happened = FALSE
  /\ next_date = None
  /\ current_revision = 0
  /\ next_revision = 0
  /\ revision = 0
  /\ index = 1
  /\ switches = 0
  /\ calls = [k \in 1..Len(start_dates) |-> 0]
  /\ last_call = None
  /\ writes = 0
  /\ written = <<>>
  /\ notice = ""
  /\ flags = NoFlags
  /\ outcome = ""
  /\ previous = NoPrevious
  /\ runs = 0
  /\ asked = None
  /\ crash = None

\* the user checks out another revision between two runs
Checkout(r) ==
  /\ pc = "idle"
  /\ runs < MaxRuns
  /\ r # working_copy
  /\ working_copy' = r
  /\ UNCHANGED <<history, start_dates, files, progress_data, dry_run,
                 use_current_revision, pc, start_revision, any_update_happened,
                 next_date, current_revision, next_revision, revision, index,
                 switches, calls, last_call, writes, written, notice, flags,
                 outcome, previous, runs, asked, crash>>

\* main, lines 60-72: a new process, up to the milestone loop (current
\* revision) or to the head of the while loop (cadence walk)
StartMain(use_current, dry) ==
  /\ pc = "idle"
  /\ runs < MaxRuns
  /\ dry_run' = dry
  /\ use_current_revision' = use_current
  /\ start_revision' = get_current_revision(working_copy)
  /\ any_update_happened' = FALSE
  /\ current_revision' = 0
  /\ next_revision' = 0
  /\ index' = 1
  /\ switches' = 0
  /\ calls' = [k \in Milestones |-> 0]
  /\ last_call' = None
  /\ writes' = 0
  /\ written' = <<>>
  /\ notice' = ""
  /\ flags' = NoFlags
  /\ outcome' = ""
  /\ asked' = None
  /\ IF use_current
     THEN /\ progress_data' = [k \in Milestones |-> NotLoaded]
          /\ revision' = start_revision'
          /\ next_date' = None
          /\ pc' = "update"
     ELSE LET logs == [k \in Milestones |->
                         get_progress_data(NotLoaded, files[k].progress)]
          IN /\ progress_data' = [k \in Milestones |-> [loaded |-> TRUE, log |-> logs[k]]]
             /\ next_date' = get_next_date(logs, start_dates)
             /\ revision' = 0
             /\ pc' = "loop"
  /\ UNCHANGED <<history, working_copy, start_dates, files, previous, runs, crash>>

\* main, lines 87-94, without line 93
Select_unflagged(has_log) ==
  /\ IF is_switch_to_revision_required(has_log)
     THEN /\ working_copy' = next_revision'
          /\ switches' = switches + 1
     ELSE UNCHANGED <<working_copy, switches>>
  /\ current_revision' = next_revision'
  /\ any_update_happened' = any_update_happened
  /\ revision' = next_revision'
  /\ index' = 1
  /\ asked' = <<has_log>>
  /\ pc' = "update"

\* main, lines 87-94: the revision is selected
Select(has_log) ==
  /\ IF is_switch_to_revision_required(has_log)
     THEN /\ working_copy' = next_revision'
          /\ switches' = switches + 1
     ELSE UNCHANGED <<working_copy, switches>>
  /\ current_revision' = next_revision'
  /\ any_update_happened' = TRUE
  /\ revision' = next_revision'
  /\ index' = 1
  /\ asked' = <<has_log>>
  /\ pc' = "update"

\* main, lines 75-94: the head of the while loop, up to the prompt, the
\* break or the milestone loop
PickRevision(has_log) ==
  /\ pc = "loop"
  /\ next_revision' = pick_next_revision(history, next_date)
  /\ IF same_revision(next_revision', current_revision)
     THEN /\ pc' = "exit"
          /\ UNCHANGED <<working_copy, switches, current_revision,
                         any_update_happened, revision, index, asked, flags>>
     ELSE LET next_rev_date ==
                get_revision_date(history, working_copy, next_revision', FALSE)
          IN IF next_date = None \/ date_lt(next_rev_date, next_date)
             THEN /\ pc' = "prompt"
                  /\ flags' = [flags EXCEPT !.prompted = TRUE]
                  /\ UNCHANGED <<working_copy, switches, current_revision,
                                 any_update_happened, revision, index, asked>>
             ELSE /\ Select(has_log)
                  /\ flags' = flags
  /\ UNCHANGED <<history, start_dates, files, progress_data, dry_run,
                 use_current_revision, start_revision, next_date, calls, last_call,
                 writes, written, notice, outcome, previous, runs, crash>>

\* main, lines 80-85, with the answer to the prompt ignored
Answer_ignored(response, has_log) ==
  /\ pc = "prompt"
  /\ next_revision' = next_revision
  /\ flags' = [flags EXCEPT !.declined = (response # "y")]
  /\ Select(has_log)
  /\ UNCHANGED <<history, start_dates, files, progress_data, dry_run,
                 use_current_revision, start_revision, next_date, calls, last_call,
                 writes, written, notice, outcome, previous, runs, crash>>

\* main, lines 83-94: the user answers the prompt
Answer(response, has_log) ==
  /\ pc = "prompt"
  /\ IF response # "y"
     THEN /\ pc' = "exit"
          /\ flags' = [flags EXCEPT !.declined = TRUE]
          /\ UNCHANGED <<working_copy, switches, current_revision,
                         any_update_happened, revision, index, next_revision,
                         asked>>
     ELSE /\ next_revision' = next_revision
          /\ flags' = flags
          /\ Select(has_log)
  /\ UNCHANGED <<history, start_dates, files, progress_data, dry_run,
                 use_current_revision, start_revision, next_date, calls, last_call,
                 writes, written, notice, outcome, previous, runs, crash>>

\* update_milestones_for_revision, lines 36-56: one pass of the loop, for
\* milestone index; result is what get_data returns if it is called
UpdateMilestone(result) ==
  /\ pc = "update"
  /\ index <= NumMilestones
  /\ \E rev_date \in {get_revision_date(history, working_copy, revision,
                                         use_current_revision)},
        loaded \in {get_progress_data(progress_data[index], files[index].progress)} :
     \E collected \in {collect_data(result, rev_date, revision)} :
     LET appended == append_progress_entry(loaded, collected[1])
     IN IF already_collected(use_current_revision, get_last_date(loaded), rev_date)
        THEN /\ notice' = "Skipping (Already collected)"
             /\ progress_data' =
                  [progress_data EXCEPT ![index] = [loaded |-> TRUE, log |-> loaded]]
             /\ index' = index + 1
             /\ written' = <<>>
             /\ UNCHANGED <<files, calls, last_call, writes, flags>>
        ELSE /\ calls' = [calls EXCEPT ![index] = @ + 1]
             /\ last_call' = <<index, rev_date, revision>>
             /\ IF collected = None
                THEN /\ notice' = "Skipping (User aborted)"
                     /\ flags' = [flags EXCEPT !.no_data = TRUE]
                     /\ index' = after_no_data(index, NumMilestones)
                     /\ written' = <<>>
                     /\ UNCHANGED <<files, progress_data, writes>>
                ELSE /\ progress_data' =
                          [progress_data EXCEPT ![index] =
                             [loaded |-> TRUE, log |-> appended]]
                     /\ files' =
                          [files EXCEPT ![index] =
                             saved(dry_run, @, appended, collected[2])]
                     /\ notice' = IF dry_run THEN "Not writing (dry run)"
                                  ELSE "Writing"
                     /\ writes' = IF dry_run THEN writes ELSE writes + 2
                     /\ written' = IF dry_run THEN <<>>
                                   ELSE <<"progress.json", "snapshot.json">>
                     /\ index' = index + 1
                     /\ flags' = flags
  /\ UNCHANGED <<history, working_copy, start_dates, dry_run, use_current_revision,
                 pc, start_revision, any_update_happened, next_date,
                 current_revision, next_revision, revision, switches, outcome,
                 previous, runs, asked, crash>>

\* the run is over, by its report or by an error: the next one is a new
\* process
Finish(line) ==
  /\ outcome' = line
  /\ previous' =
       [walk |-> ~use_current_revision,
        exhausted |-> /\ ~use_current_revision /\ ~dry_run
                      /\ ~flags.declined /\ ~flags.no_data
                      /\ current_revision = Len(history)]
  /\ runs' = runs + 1
  /\ crash' = None
  /\ pc' = "idle"

\* the milestone loop is over: main, line 68 (current revision) or line 97
\* (cadence walk; None += timedelta raises TypeError)
AfterUpdate ==
  /\ pc = "update"
  /\ index > NumMilestones
  /\ IF use_current_revision
     THEN /\ any_update_happened' = TRUE
          /\ pc' = "report"
          /\ UNCHANGED <<next_date, outcome, previous, runs, crash>>
     ELSE IF next_date = None
     THEN /\ Finish("TypeError")
          /\ UNCHANGED <<next_date, any_update_happened>>
     ELSE /\ next_date' = advance_next_date(next_date)
          /\ pc' = "loop"
          /\ UNCHANGED <<any_update_happened, outcome, previous, runs, crash>>
  /\ asked' = None
  /\ UNCHANGED <<history, working_copy, start_dates, files, progress_data, dry_run,
                 use_current_revision, start_revision, current_revision,
                 next_revision, revision, index, switches, calls, last_call,
                 writes, written, notice, flags>>

\* main without lines 99-102
Restore_skipped ==
  /\ pc = "exit"
  /\ pc' = "report"
  /\ UNCHANGED <<history, working_copy, start_dates, files, progress_data, dry_run,
                 use_current_revision, start_revision, any_update_happened,
                 next_date, current_revision, next_revision, revision, index,
                 switches, calls, last_call, writes, written, notice, flags,
                 outcome, previous, runs, asked, crash>>

\* main, lines 99-102: the working copy goes back to the start revision
Restore ==
  /\ pc = "exit"
  /\ LET end_revision == get_current_revision(working_copy)
     IN IF start_revision # end_revision
        THEN /\ working_copy' = start_revision
             /\ switches' = switches + 1
        ELSE UNCHANGED <<working_copy, switches>>
  /\ pc' = "report"
  /\ UNCHANGED <<history, start_dates, files, progress_data, dry_run,
                 use_current_revision, start_revision, any_update_happened,
                 next_date, current_revision, next_revision, revision, index,
                 calls, last_call, writes, written, notice, flags, outcome,
                 previous, runs, asked, crash>>

\* main, lines 104-107
Report ==
  /\ pc = "report"
  /\ Finish(IF ~any_update_happened
            THEN "Could not find a revision for the next data update!"
            ELSE "DONE!")
  /\ UNCHANGED <<history, working_copy, start_dates, files, progress_data, dry_run,
                 use_current_revision, start_revision, any_update_happened,
                 next_date, current_revision, next_revision, revision, index,
                 switches, calls, last_call, writes, written, notice, flags,
                 asked>>

\* the process is killed between two milestones of an iteration of a cadence
\* walk, after the earlier one has written its files: no restore, no report
Crash ==
  /\ pc = "update"
  /\ ~use_current_revision
  /\ ~dry_run
  /\ index > 1
  /\ index <= NumMilestones
  /\ notice = "Writing"
  /\ crash' = <<get_revision_date(history, working_copy, revision, FALSE),
                revision, index>>
  /\ previous' = [walk |-> TRUE, exhausted |-> FALSE]
  /\ outcome' = "killed"
  /\ runs' = runs + 1
  /\ pc' = "idle"
  /\ UNCHANGED <<history, working_copy, start_dates, files, progress_data, dry_run,
                 use_current_revision, start_revision, any_update_happened,
                 next_date, current_revision, next_revision, revision, index,
                 switches, calls, last_call, writes, written, notice, flags,
                 asked>>

\* the steps of a run of main
RunStep ==
  \/ \E has_log \in [Milestones -> BOOLEAN] : PickRevision(has_log)
  \/ \E response \in {"y", "n"}, has_log \in [Milestones -> BOOLEAN] :
       Answer(response, has_log)
  \/ \E result \in Results : UpdateMilestone(result)
  \/ AfterUpdate
  \/ Restore
  \/ Report

HasLogAnswers == [Milestones -> BOOLEAN]

Next ==
  \/ \E r \in Revisions(history) : Checkout(r)
  \/ \E use_current \in BOOLEAN, dry \in BOOLEAN : StartMain(use_current, dry)
  \/ \E has_log \in HasLogAnswers : PickRevision(has_log)
  \/ \E response \in {"y", "n"}, has_log \in HasLogAnswers : Answer(response, has_log)
  \/ \E result \in Results : UpdateMilestone(result)
  \/ AfterUpdate
  \/ Restore
  \/ Report
  \/ Crash

Spec == Init /\ [][Next]_vars

\* a run that is not killed goes on: main is sequential, and the user answers
\* the prompt
LiveSpec == Init /\ [][Next]_vars /\ WF_vars(RunStep)

(***************************************************************************)
(* Properties.  Dates are compared by their day number, computed in       *)
(* closed form; the date of a log entry is read back from the history.    *)
(***************************************************************************)
DaysBeforeMonth ==
  <<0, 31, 59, 90, 120, 151, 181, 212, 243, 273, 304, 334>>

\* days since 0001-01-01 in the proleptic Gregorian calendar
DayNumber(d) ==
  LET y == d[1] - 1
  IN y * 365 + (y \div 4) - (y \div 100) + (y \div 400)
     + DaysBeforeMonth[d[2]] + (IF d[2] > 2 /\ IsLeap(d[1]) THEN 1 ELSE 0)
     + d[3]

IsDate(d) ==
  /\ Len(d) = 3
  /\ d[2] \in 1..12
  /\ d[3] \in 1..DaysInMonth(d[1], d[2])

\* the calendar date an entry's date string stands for
EntryDate(e) ==
  CHOOSE d \in {history[r] : r \in Revisions(history)} : date_str(d) = e.date

\* the progress log of milestone k as the running process sees it
Log(k) == get_progress_data(progress_data[k], files[k].progress)

\* the progress log of milestone k as a new process loads it
LogOnDisk(k) == get_progress_data(NotLoaded, files[k].progress)

LastDay(log) == DayNumber(EntryDate(log[Len(log)]))

StrictlyIncreasing(log) ==
  \A i \in 1..(Len(log) - 1) :
    DayNumber(EntryDate(log[i])) < DayNumber(EntryDate(log[i + 1]))

\* C1: a cadence walk that ends without a fatal error (by the same-revision
\* check or by a declined prompt) returns with the working copy on the
\* revision it was on when the run started, however many switches it made.
C1_Restoration ==
  (pc = "report" /\ ~use_current_revision) => working_copy = start_revision

C1_Witness ==
  /\ pc = "report"
  /\ ~use_current_revision
  /\ switches >= 2
  /\ working_copy = start_revision

\* C2, as stated: a cadence walk started right after any cadence walk appends
\* or replaces no entry of any log and writes no file.
C2_IdempotenceAnyFirstRun ==
  [][(previous.walk /\ ~use_current_revision /\ pc = "update")
       => /\ progress_data' = progress_data
          /\ files' = files
          /\ writes' = writes]_vars

\* C2, amended: a cadence walk started right after a cadence walk that was
\* not killed before its end and was no dry run, in which no prompt was
\* declined and every collection gave data, and whose last selected revision
\* is the latest revision of the history, appends or replaces no entry of any
\* log and writes no file.  (previous.exhausted is FALSE after a killed run,
\* see Crash.)
C2_Idempotence ==
  [][(previous.exhausted /\ ~use_current_revision /\ pc = "update")
       => /\ progress_data' = progress_data
          /\ files' = files
          /\ writes' = writes]_vars

C2_Witness ==
  /\ previous.exhausted
  /\ ~use_current_revision
  /\ pc = "update"
  /\ index > NumMilestones
  /\ NumMilestones = 2
  /\ notice = "Skipping (Already collected)"
  /\ \A k \in Milestones : Len(Log(k)) >= 2

\* C3: in a cadence walk, a milestone whose last logged date is on or after
\* the date of the selected revision is not collected and its log and files
\* stay as they are; a milestone is collected only for a date after its last
\* logged date.
C3_SkipSemantics ==
  [][(pc = "update" /\ index <= NumMilestones /\ ~use_current_revision)
       => LET log == Log(index)
              rev_day == DayNumber(history[revision])
          IN /\ (Len(log) > 0 /\ LastDay(log) >= rev_day)
                  => /\ calls' = calls
                     /\ progress_data'[index].log = log
                     /\ files' = files
                     /\ writes' = writes
             /\ calls' # calls
                  => /\ last_call' = <<index, history[revision], revision>>
                     /\ (Len(log) = 0 \/ LastDay(log) < rev_day)]_vars

C3_Witness ==
  /\ pc = "update"
  /\ ~use_current_revision
  /\ index = 2
  /\ notice = "Skipping (Already collected)"
  /\ calls[1] = 0
  /\ Len(Log(1)) > 0

\* C4: a milestone's next date is the date of the last entry of its log plus
\* the cadence, and its start date when the log is empty.
C4_ResumeCorrectness ==
  \A k \in Milestones :
    LET next == Milestone_get_next_date(Log(k), start_dates[k], Frequency)
    IN IF Len(Log(k)) = 0
       THEN next = start_dates[k]
       ELSE /\ IsDate(next)
            /\ DayNumber(next) = LastDay(Log(k)) + Frequency

C4_Witness ==
  /\ pc = "loop"
  /\ current_revision = 0
  /\ NumMilestones = 1
  /\ Len(Log(1)) = 2
  /\ LastDay(Log(1)) > DayNumber(EntryDate(Log(1)[1]))
  /\ DayNumber(next_date) = LastDay(Log(1)) + Frequency
  /\ next_date[2] # EntryDate(Log(1)[2])[2]

\* C5: appending an entry with the date of the last entry replaces the last
\* entry in place; an entry of any other date, or any entry on an empty log,
\* goes to the tail; the entries before are left as they are.
C5_AppendContract ==
  [][(pc = "update" /\ index <= NumMilestones /\ calls' # calls
        /\ notice' \in {"Writing", "Not writing (dry run)"})
       => LET old == Log(index)
              new == progress_data'[index].log
              n == Len(old)
          IN /\ Len(new) >= 1
             /\ new[Len(new)].date = date_str(last_call'[2])
             /\ new[Len(new)].revision = last_call'[3]
             /\ IF n > 0 /\ old[n].date = new[Len(new)].date
                THEN /\ Len(new) = n
                     /\ \A i \in 1..(n - 1) : new[i] = old[i]
                ELSE /\ Len(new) = n + 1
                     /\ \A i \in 1..n : new[i] = old[i]]_vars

\* the last entry was replaced in place by another one (seen in a dry run,
\* where progress.json keeps the list as it was)
C5_Witness ==
  /\ dry_run
  /\ pc = "update"
  /\ notice = "Not writing (dry run)"
  /\ \E k \in Milestones :
       /\ progress_data[k].loaded
       /\ Len(LogOnDisk(k)) >= 1
       /\ Len(progress_data[k].log) = Len(LogOnDisk(k))
       /\ progress_data[k].log # LogOnDisk(k)

\* C6: the dates of every progress log are strictly increasing, in memory
\* and in progress.json, after any sequence of runs.
C6_LogOrdering ==
  \A k \in Milestones : StrictlyIncreasing(Log(k)) /\ StrictlyIncreasing(LogOnDisk(k))

\* C7: with at least one milestone, the first date of a cadence walk is the
\* earliest of the milestones' next dates, whatever their order.
C7_FirstTargetDate ==
  [][(pc = "idle" /\ pc' = "loop" /\ NumMilestones > 0)
       => LET required ==
                {Milestone_get_next_date(LogOnDisk(k), start_dates[k], Frequency) :
                   k \in Milestones}
          IN /\ next_date' \in required
             /\ \A d \in required : DayNumber(next_date') <= DayNumber(d)]_vars

\* one milestone has no log, the log of the other ends a cadence after the
\* first one's start date
C7_Witness ==
  /\ pc = "loop"
  /\ current_revision = 0
  /\ NumMilestones = 2
  /\ \E x, y \in Milestones :
       /\ x > y
       /\ Len(Log(x)) = 0
       /\ Len(Log(y)) > 0
       /\ LastDay(Log(y)) = DayNumber(start_dates[x]) + Frequency
       /\ next_date = start_dates[x]

\* C8: a dry run of main, in either mode, writes no progress.json and no
\* snapshot.json: the files stay as they were when the run started.
C8_DryRun ==
  [][(dry_run' /\ pc' # "idle") => (files' = files /\ writes' = 0)]_vars

C8_Witness ==
  /\ dry_run
  /\ pc = "report"
  /\ notice = "Not writing (dry run)"
  /\ \E k \in Milestones : progress_data[k].log # LogOnDisk(k)

\* C9: in current-revision mode every milestone is collected exactly once, at
\* the revision checked out when the run started, whatever its log holds, and
\* the working copy is never switched.
C9_CurrentRevisionMode ==
  [][(use_current_revision /\ pc # "idle")
       => /\ switches' = 0
          /\ working_copy' = working_copy
          /\ (pc = "update" /\ index <= NumMilestones)
               => /\ calls' = [calls EXCEPT ![index] = calls[index] + 1]
                  /\ last_call' = <<index, history[start_revision], start_revision>>
          /\ pc' = "report" => \A k \in Milestones : calls'[k] = 1]_vars

\* both milestones were collected, one for a date before its last logged date
C9_Witness ==
  /\ use_current_revision
  /\ pc = "report"
  /\ NumMilestones = 2
  /\ calls = <<1, 1>>
  /\ \E k \in Milestones :
       /\ Len(Log(k)) = 2
       /\ LastDay(Log(k)) < DayNumber(EntryDate(Log(k)[1]))

\* C10: a collection that gives no data leaves the milestone's log and files
\* as they are and goes on with the next milestone of the iteration; the walk
\* then goes on with the next cadence step.
C10_NoDataIsLocalSkip ==
  /\ [][(pc = "update" /\ calls' # calls /\ notice' = "Skipping (User aborted)")
          => /\ progress_data' = progress_data
             /\ files' = files
             /\ writes' = writes
             /\ pc' = "update"
             /\ index' = index + 1
             /\ revision' = revision
             /\ runs' = runs]_vars
  /\ [][(pc = "update" /\ index > NumMilestones /\ NumMilestones > 0
           /\ ~use_current_revision /\ flags.no_data)
          => /\ pc' = "loop"
             /\ DayNumber(next_date') = DayNumber(next_date) + Frequency]_vars

\* the first milestone got no data, the second one was then collected and
\* written, and the walk is at its next step
C10_Witness ==
  /\ pc = "loop"
  /\ NumMilestones = 2
  /\ flags.no_data
  /\ calls = <<1, 1>>
  /\ Len(Log(1)) = 0
  /\ Len(Log(2)) = 1
  /\ notice = "Writing"

\* C11: when the user declines the prompt of a cadence walk, the working copy is
\* not switched to the revision the prompt was about, no milestone is collected
\* or written for that revision or a later one in the run, and the run goes on
\* to its report with the working copy back at the start revision.
C11_UserDecline ==
  [][/\ (pc = "prompt" /\ flags'.declined)
        => /\ pc' = "exit"
           /\ working_copy' = working_copy
           /\ switches' = switches
           /\ current_revision' = current_revision
           /\ calls' = calls
     /\ (flags.declined /\ pc # "idle")
        => /\ pc' \in {"exit", "report", "idle"}
           /\ calls' = calls
           /\ files' = files
           /\ progress_data' = progress_data
           /\ (pc' = "report" => working_copy' = start_revision)
           /\ (pc' = "idle" => /\ working_copy' = start_revision
                               /\ outcome' \in {"DONE!",
                                     "Could not find a revision for the next data update!"})
    ]_vars

\* a walk collected at a first revision, was declined at a later one, and has
\* restored the working copy
C11_Witness ==
  /\ pc = "report"
  /\ flags.declined
  /\ switches >= 2
  /\ working_copy = start_revision
  /\ next_revision > current_revision
  /\ \E k \in Milestones : calls[k] >= 1

\* C12: with at least one milestone, a cadence walk that has entered its loop
\* leaves it (or the process is killed), whatever the history, the answers and
\* the collection outcomes; every iteration moves next_date on by one cadence;
\* the loop is left exactly when the picked revision is the one selected
\* before, or when the user declines.
C12_Termination ==
  /\ (pc = "loop" /\ NumMilestones > 0) ~> (pc = "exit" \/ outcome = "killed")
  /\ [][/\ (pc = "update" /\ pc' = "loop")
            => DayNumber(next_date') = DayNumber(next_date) + Frequency
        /\ (pc = "loop" /\ NumMilestones > 0)
            => /\ (pc' = "exit") <=> (next_revision' = current_revision)
               /\ (pc' = "update") => (next_revision' > current_revision)
        /\ (pc = "prompt" /\ NumMilestones > 0)
            => (pc' = "exit" <=> flags'.declined)
       ]_vars

\* a walk went through two iterations and left the loop on the third, when
\* the picked revision was the one selected before
C12_Witness ==
  /\ pc = "exit"
  /\ ~flags.declined
  /\ NumMilestones > 0
  /\ current_revision = 2
  /\ next_revision = current_revision
  /\ switches >= 2
  /\ DayNumber(next_date) >= DayNumber(BaseDate) + 2 * Frequency

\* C13 as stated: whenever the loop of a cadence walk ends because the picked
\* revision is the one selected before, the history has no revision newer
\* than the last selected one.
C13_ExhaustionOfHistory ==
  [][(pc = "loop" /\ pc' = "exit") => current_revision = Len(history)]_vars

\* C13: whenever the loop of a cadence walk ends because the picked revision
\* is the one selected before, no revision newer than the last selected one
\* was committed at or before the next_date of that iteration (newer
\* revisions committed after that date may exist).
C13_ExhaustionUpToNextDate ==
  [][(pc = "loop" /\ pc' = "exit")
       => /\ next_date # None
          /\ next_revision' = current_revision
          /\ \A r \in Revisions(history) :
                r > current_revision
                  => DayNumber(history[r]) > DayNumber(next_date)
    ]_vars

\* the loop ended on the first revision although a second one, committed more
\* than one cadence later, is in the history
C13_Witness ==
  /\ pc = "exit"
  /\ ~flags.declined
  /\ current_revision = 1
  /\ next_revision = 1
  /\ Len(history) = 2
  /\ DayNumber(history[2]) > DayNumber(next_date)

\* C14 as stated: in a cadence walk, once an iteration has asked for
\* confirmation, no later iteration picks a further revision: none selects one
\* and none asks again.
C14_ConfirmationOnlyAtTheEnd ==
  [][(pc = "loop" /\ pc' \in {"update", "prompt"}) => ~flags.prompted]_vars

\* the day milestone k needs its next entry for, from its own log and start
\* date alone
OwnNextDay(k) ==
  IF Len(Log(k)) = 0 THEN DayNumber(start_dates[k])
  ELSE LastDay(Log(k)) + Frequency

\* C15 as stated: in a cadence walk, whenever data is collected for a milestone
\* at a revision that was selected without a confirmation prompt, the date of
\* the revision is on or after the milestone's own next required date (its
\* start date when its log is empty, else its last logged date plus one
\* cadence).
C15_IndependentAnchoring ==
  [][(/\ pc = "update"
      /\ ~use_current_revision
      /\ calls' # calls
      /\ next_date # None
      /\ DayNumber(history[revision]) >= DayNumber(next_date))
       => DayNumber(history[revision]) >= OwnNextDay(index)
    ]_vars

\* C16: in every iteration of a cadence walk that selects a revision, the
\* working copy is switched to that revision if and only if at least one
\* milestone answers has_log_for_date = False; when all answer True it stays
\* where it is; with the default answer (False from every milestone) and at
\* least one milestone, every such iteration switches.
C16_SwitchOnlyWhenNeeded ==
  [][(pc \in {"loop", "prompt"} /\ pc' = "update")
       => LET has_log == asked'[1]
              switched == /\ switches' = switches + 1
                          /\ working_copy' = next_revision'
              left == /\ switches' = switches
                      /\ working_copy' = working_copy
          IN /\ IF \E k \in Milestones : ~has_log[k] THEN switched ELSE left
             /\ (\A k \in Milestones : has_log[k]) => left
             /\ (NumMilestones > 0 /\ \A k \in Milestones : ~has_log[k])
                  => switched
    ]_vars

\* a walk switched to the selected revision on the default answers, and then
\* every milestone skipped it as already collected
C16_Witness ==
  /\ pc = "update"
  /\ ~use_current_revision
  /\ index > NumMilestones
  /\ NumMilestones = 2
  /\ asked = <<[k \in Milestones |-> FALSE]>>
  /\ switches = 1
  /\ working_copy = revision
  /\ working_copy # start_revision
  /\ \A k \in Milestones : calls[k] = 0
  /\ notice = "Skipping (Already collected)"

\* C17 as stated: a cadence walk over an empty set of milestones asks no
\* confirmation, switches the working copy to no revision, writes no file
\* and ends normally.
C17_EmptyMilestoneSet ==
  (NumMilestones = 0 /\ ~use_current_revision /\ (pc # "idle" \/ runs > 0))
    => /\ ~flags.prompted
       /\ switches = 0
       /\ writes = 0
       /\ outcome # "TypeError"

\* log holds an entry for date d, and no date twice
HasEntryFor(log, d) == \E i \in 1..Len(log) : log[i].date = date_str(d)

NoDuplicateDate(log) ==
  \A i \in 1..Len(log), j \in 1..Len(log) : log[i].date = log[j].date => i = j

\* C18 as stated: after a cadence walk that wrote was killed between two
\* milestones of the iteration for the revision of date D, the next cadence
\* walk starts at a next_date on or before D, and when it is over (not a dry
\* run, nothing declined, data for every collection) the log of every
\* milestone holds an entry for D and no date twice.
C18_CrashRecovery ==
  (crash # None /\ ~use_current_revision)
    => /\ (pc = "loop" /\ current_revision = 0)
            => DayNumber(next_date) <= DayNumber(crash[1])
       /\ (pc = "report" /\ ~dry_run /\ ~flags.declined /\ ~flags.no_data)
            => \A k \in Milestones :
                 /\ HasEntryFor(LogOnDisk(k), crash[1])
                 /\ NoDuplicateDate(LogOnDisk(k))

NoUpdateLine == "Could not find a revision for the next data update!"

\* C19 as stated: a run reports that no update happened exactly when
\* collect_data was called for no milestone during the run, and reports
\* completion otherwise.
C19_RunOutcomeByCollection ==
  [][(pc = "report" /\ pc' = "idle")
       => /\ outcome' \in {NoUpdateLine, "DONE!"}
          /\ (outcome' = NoUpdateLine) <=> (\A k \in Milestones : calls[k] = 0)
    ]_vars

\* C19: a run reports that no update happened exactly when it is a cadence
\* walk in which no revision was selected; a run on the current revision,
\* and a walk that selected a revision, report completion, whether or not
\* any milestone was collected.
C19_RunOutcomeBySelection ==
  [][(pc = "report" /\ pc' = "idle")
       => /\ outcome' \in {NoUpdateLine, "DONE!"}
          /\ (outcome' = NoUpdateLine)
               <=> (~use_current_revision /\ current_revision = 0)
    ]_vars

\* a walk selected a revision, every milestone skipped it, and the run
\* reported completion
C19_Witness ==
  /\ pc = "idle"
  /\ outcome = "DONE!"
  /\ ~use_current_revision
  /\ NumMilestones > 0
  /\ current_revision # 0
  /\ \A k \in Milestones : calls[k] = 0

\* C20: in a run that is not a dry run, after every step in which a milestone
\* collected data, its progress.json holds the log the process has in memory,
\* its snapshot.json is the one snapshot of this collection, with the date and
\* the revision of the last entry of progress.json, and progress.json was
\* written before snapshot.json.
C20_DurableConsistency ==
  [][(/\ pc = "update"
      /\ ~dry_run
      /\ calls' # calls
      /\ notice' # "Skipping (User aborted)")
       => LET dir == files'[index]
              log == progress_data'[index].log
          IN /\ notice' = "Writing"
             /\ dir.progress = File(log)
             /\ Len(log) > 0
             /\ Len(dir.snapshot) = 1
             /\ dir.snapshot[1].date = log[Len(log)].date
             /\ dir.snapshot[1].revision = log[Len(log)].revision
             /\ dir.snapshot[1].date = date_str(last_call'[2])
             /\ dir.snapshot[1].revision = revision
             /\ written' = <<"progress.json", "snapshot.json">>
    ]_vars

\* a milestone has just written a log of two entries and the snapshot of the
\* second
C20_Witness ==
  /\ pc = "update"
  /\ ~dry_run
  /\ notice = "Writing"
  /\ index > 1
  /\ Len(LogOnDisk(index - 1)) = 2
  /\ LogOnDisk(index - 1) = progress_data[index - 1].log
  /\ files[index - 1].snapshot # None
  /\ files[index - 1].snapshot[1].revision = LogOnDisk(index - 1)[2].revision
  /\ files[index - 1].snapshot[1].revision # LogOnDisk(index - 1)[1].revision

====
